---- MODULE Spec2Model ----
(***************************************************************************)
(* Parser combinators of plex-1.py: the Parser wrapper, the atomic         *)
(* parsers parse_a / parse_true / parse_false / regex / pure, and the      *)
(* combinators seq, choice, compose, between, fmap, bind and many.         *)
(*                                                                         *)
(* A Python str is the sequence of its code points.  A Python value is     *)
(* a record tagged by its type; the pair (value, offset) every parser      *)
(* returns is the tuple <<value, offset>>.  Offsets are 0-based as in the  *)
(* source; sequences are indexed from 1.  A call that does not return is   *)
(* the outcome Raised (an exception leaves the function) or Hung (the      *)
(* loop of many runs forever); both pass through every caller.             *)
(***************************************************************************)
EXTENDS Integers, Sequences, FiniteSets, TLC

VARIABLES text, pos, pc, parser, ret, result, idx, calls

vars == <<text, pos, pc, parser, ret, result, idx, calls>>

\* ---------------------------------------------------------------- bounds
MaxWords == 3
MaxIter == 6

\* ---------------------------------------------------------- Python values
None == [kind |-> "none"]
Str(cs) == [kind |-> "str", chars |-> cs]
PyInt(n) == [kind |-> "int", n |-> n]
Tuple(a, b) == [kind |-> "tuple", fst |-> a, snd |-> b]
List(xs) == [kind |-> "list", elems |-> xs]
TypeError == [kind |-> "raise", exc |-> "TypeError"]
IndexError == [kind |-> "raise", exc |-> "IndexError"]

\* the two outcomes of a call that returns no pair
Raised == <<TypeError, -1>>
Hung == <<[kind |-> "hang"], -1>>
NoReturn(r) == r[1].kind \in {"raise", "hang"}

\* a character is its Unicode code point
LitA == <<97>>
LitB == <<98>>
LitTrue == <<116, 114, 117, 101>>
LitFalse == <<102, 97, 108, 115, 101>>

\* str(int)
RECURSIVE Digits(_)
Digits(n) ==
    IF n < 0 THEN <<45>> \o Digits(0 - n)
    ELSE IF n < 10 THEN <<48 + n>>
    ELSE Digits(n \div 10) \o <<48 + (n % 10)>>

\* the hexadecimal digits of n, lower case, padded to width w
RECURSIVE Hex(_, _)
Hex(n, w) ==
    IF w = 0 THEN <<>>
    ELSE LET d == n % 16
         IN  Hex(n \div 16, w - 1) \o <<IF d < 10 THEN 48 + d ELSE 87 + d>>

\* the ranges of the code points from 128 on that str.isprintable rejects
NonPrintable ==
    << <<128, 160>>, <<173, 173>>, <<888, 889>>, <<896, 899>>, <<907, 907>>, <<909, 909>>,
       <<930, 930>>, <<1328, 1328>>, <<1367, 1368>>, <<1419, 1420>>, <<1424, 1424>>, <<1480, 1487>>,
       <<1515, 1518>>, <<1525, 1541>>, <<1564, 1564>>, <<1757, 1757>>, <<1806, 1807>>, <<1867, 1868>>,
       <<1970, 1983>>, <<2043, 2044>>, <<2094, 2095>>, <<2111, 2111>>, <<2140, 2141>>, <<2143, 2143>>,
       <<2155, 2159>>, <<2191, 2199>>, <<2274, 2274>>, <<2436, 2436>>, <<2445, 2446>>, <<2449, 2450>>,
       <<2473, 2473>>, <<2481, 2481>>, <<2483, 2485>>, <<2490, 2491>>, <<2501, 2502>>, <<2505, 2506>>,
       <<2511, 2518>>, <<2520, 2523>>, <<2526, 2526>>, <<2532, 2533>>, <<2559, 2560>>, <<2564, 2564>>,
       <<2571, 2574>>, <<2577, 2578>>, <<2601, 2601>>, <<2609, 2609>>, <<2612, 2612>>, <<2615, 2615>>,
       <<2618, 2619>>, <<2621, 2621>>, <<2627, 2630>>, <<2633, 2634>>, <<2638, 2640>>, <<2642, 2648>>,
       <<2653, 2653>>, <<2655, 2661>>, <<2679, 2688>>, <<2692, 2692>>, <<2702, 2702>>, <<2706, 2706>>,
       <<2729, 2729>>, <<2737, 2737>>, <<2740, 2740>>, <<2746, 2747>>, <<2758, 2758>>, <<2762, 2762>>,
       <<2766, 2767>>, <<2769, 2783>>, <<2788, 2789>>, <<2802, 2808>>, <<2816, 2816>>, <<2820, 2820>>,
       <<2829, 2830>>, <<2833, 2834>>, <<2857, 2857>>, <<2865, 2865>>, <<2868, 2868>>, <<2874, 2875>>,
       <<2885, 2886>>, <<2889, 2890>>, <<2894, 2900>>, <<2904, 2907>>, <<2910, 2910>>, <<2916, 2917>>,
       <<2936, 2945>>, <<2948, 2948>>, <<2955, 2957>>, <<2961, 2961>>, <<2966, 2968>>, <<2971, 2971>>,
       <<2973, 2973>>, <<2976, 2978>>, <<2981, 2983>>, <<2987, 2989>>, <<3002, 3005>>, <<3011, 3013>>,
       <<3017, 3017>>, <<3022, 3023>>, <<3025, 3030>>, <<3032, 3045>>, <<3067, 3071>>, <<3085, 3085>>,
       <<3089, 3089>>, <<3113, 3113>>, <<3130, 3131>>, <<3141, 3141>>, <<3145, 3145>>, <<3150, 3156>>,
       <<3159, 3159>>, <<3163, 3164>>, <<3166, 3167>>, <<3172, 3173>>, <<3184, 3190>>, <<3213, 3213>>,
       <<3217, 3217>>, <<3241, 3241>>, <<3252, 3252>>, <<3258, 3259>>, <<3269, 3269>>, <<3273, 3273>>,
       <<3278, 3284>>, <<3287, 3292>>, <<3295, 3295>>, <<3300, 3301>>, <<3312, 3312>>, <<3315, 3327>>,
       <<3341, 3341>>, <<3345, 3345>>, <<3397, 3397>>, <<3401, 3401>>, <<3408, 3411>>, <<3428, 3429>>,
       <<3456, 3456>>, <<3460, 3460>>, <<3479, 3481>>, <<3506, 3506>>, <<3516, 3516>>, <<3518, 3519>>,
       <<3527, 3529>>, <<3531, 3534>>, <<3541, 3541>>, <<3543, 3543>>, <<3552, 3557>>, <<3568, 3569>>,
       <<3573, 3584>>, <<3643, 3646>>, <<3676, 3712>>, <<3715, 3715>>, <<3717, 3717>>, <<3723, 3723>>,
       <<3748, 3748>>, <<3750, 3750>>, <<3774, 3775>>, <<3781, 3781>>, <<3783, 3783>>, <<3790, 3791>>,
       <<3802, 3803>>, <<3808, 3839>>, <<3912, 3912>>, <<3949, 3952>>, <<3992, 3992>>, <<4029, 4029>>,
       <<4045, 4045>>, <<4059, 4095>>, <<4294, 4294>>, <<4296, 4300>>, <<4302, 4303>>, <<4681, 4681>>,
       <<4686, 4687>>, <<4695, 4695>>, <<4697, 4697>>, <<4702, 4703>>, <<4745, 4745>>, <<4750, 4751>>,
       <<4785, 4785>>, <<4790, 4791>>, <<4799, 4799>>, <<4801, 4801>>, <<4806, 4807>>, <<4823, 4823>>,
       <<4881, 4881>>, <<4886, 4887>>, <<4955, 4956>>, <<4989, 4991>>, <<5018, 5023>>, <<5110, 5111>>,
       <<5118, 5119>>, <<5760, 5760>>, <<5789, 5791>>, <<5881, 5887>>, <<5910, 5918>>, <<5943, 5951>>,
       <<5972, 5983>>, <<5997, 5997>>, <<6001, 6001>>, <<6004, 6015>>, <<6110, 6111>>, <<6122, 6127>>,
       <<6138, 6143>>, <<6158, 6158>>, <<6170, 6175>>, <<6265, 6271>>, <<6315, 6319>>, <<6390, 6399>>,
       <<6431, 6431>>, <<6444, 6447>>, <<6460, 6463>>, <<6465, 6467>>, <<6510, 6511>>, <<6517, 6527>>,
       <<6572, 6575>>, <<6602, 6607>>, <<6619, 6621>>, <<6684, 6685>>, <<6751, 6751>>, <<6781, 6782>>,
       <<6794, 6799>>, <<6810, 6815>>, <<6830, 6831>>, <<6863, 6911>>, <<6989, 6991>>, <<7039, 7039>>,
       <<7156, 7163>>, <<7224, 7226>>, <<7242, 7244>>, <<7305, 7311>>, <<7355, 7356>>, <<7368, 7375>>,
       <<7419, 7423>>, <<7958, 7959>>, <<7966, 7967>>, <<8006, 8007>>, <<8014, 8015>>, <<8024, 8024>>,
       <<8026, 8026>>, <<8028, 8028>>, <<8030, 8030>>, <<8062, 8063>>, <<8117, 8117>>, <<8133, 8133>>,
       <<8148, 8149>>, <<8156, 8156>>, <<8176, 8177>>, <<8181, 8181>>, <<8191, 8207>>, <<8232, 8239>>,
       <<8287, 8303>>, <<8306, 8307>>, <<8335, 8335>>, <<8349, 8351>>, <<8385, 8399>>, <<8433, 8447>>,
       <<8588, 8591>>, <<9255, 9279>>, <<9291, 9311>>, <<11124, 11125>>, <<11158, 11158>>, <<11508, 11512>>,
       <<11558, 11558>>, <<11560, 11564>>, <<11566, 11567>>, <<11624, 11630>>, <<11633, 11646>>, <<11671, 11679>>,
       <<11687, 11687>>, <<11695, 11695>>, <<11703, 11703>>, <<11711, 11711>>, <<11719, 11719>>, <<11727, 11727>>,
       <<11735, 11735>>, <<11743, 11743>>, <<11870, 11903>>, <<11930, 11930>>, <<12020, 12031>>, <<12246, 12271>>,
       <<12284, 12288>>, <<12352, 12352>>, <<12439, 12440>>, <<12544, 12548>>, <<12592, 12592>>, <<12687, 12687>>,
       <<12772, 12783>>, <<12831, 12831>>, <<42125, 42127>>, <<42183, 42191>>, <<42540, 42559>>, <<42744, 42751>>,
       <<42955, 42959>>, <<42962, 42962>>, <<42964, 42964>>, <<42970, 42993>>, <<43053, 43055>>, <<43066, 43071>>,
       <<43128, 43135>>, <<43206, 43213>>, <<43226, 43231>>, <<43348, 43358>>, <<43389, 43391>>, <<43470, 43470>>,
       <<43482, 43485>>, <<43519, 43519>>, <<43575, 43583>>, <<43598, 43599>>, <<43610, 43611>>, <<43715, 43738>>,
       <<43767, 43776>>, <<43783, 43784>>, <<43791, 43792>>, <<43799, 43807>>, <<43815, 43815>>, <<43823, 43823>>,
       <<43884, 43887>>, <<44014, 44015>>, <<44026, 44031>>, <<55204, 55215>>, <<55239, 55242>>, <<55292, 63743>>,
       <<64110, 64111>>, <<64218, 64255>>, <<64263, 64274>>, <<64280, 64284>>, <<64311, 64311>>, <<64317, 64317>>,
       <<64319, 64319>>, <<64322, 64322>>, <<64325, 64325>>, <<64451, 64466>>, <<64912, 64913>>, <<64968, 64974>>,
       <<64976, 65007>>, <<65050, 65055>>, <<65107, 65107>>, <<65127, 65127>>, <<65132, 65135>>, <<65141, 65141>>,
       <<65277, 65280>>, <<65471, 65473>>, <<65480, 65481>>, <<65488, 65489>>, <<65496, 65497>>, <<65501, 65503>>,
       <<65511, 65511>>, <<65519, 65531>>, <<65534, 65535>>, <<65548, 65548>>, <<65575, 65575>>, <<65595, 65595>>,
       <<65598, 65598>>, <<65614, 65615>>, <<65630, 65663>>, <<65787, 65791>>, <<65795, 65798>>, <<65844, 65846>>,
       <<65935, 65935>>, <<65949, 65951>>, <<65953, 65999>>, <<66046, 66175>>, <<66205, 66207>>, <<66257, 66271>>,
       <<66300, 66303>>, <<66340, 66348>>, <<66379, 66383>>, <<66427, 66431>>, <<66462, 66462>>, <<66500, 66503>>,
       <<66518, 66559>>, <<66718, 66719>>, <<66730, 66735>>, <<66772, 66775>>, <<66812, 66815>>, <<66856, 66863>>,
       <<66916, 66926>>, <<66939, 66939>>, <<66955, 66955>>, <<66963, 66963>>, <<66966, 66966>>, <<66978, 66978>>,
       <<66994, 66994>>, <<67002, 67002>>, <<67005, 67071>>, <<67383, 67391>>, <<67414, 67423>>, <<67432, 67455>>,
       <<67462, 67462>>, <<67505, 67505>>, <<67515, 67583>>, <<67590, 67591>>, <<67593, 67593>>, <<67638, 67638>>,
       <<67641, 67643>>, <<67645, 67646>>, <<67670, 67670>>, <<67743, 67750>>, <<67760, 67807>>, <<67827, 67827>>,
       <<67830, 67834>>, <<67868, 67870>>, <<67898, 67902>>, <<67904, 67967>>, <<68024, 68027>>, <<68048, 68049>>,
       <<68100, 68100>>, <<68103, 68107>>, <<68116, 68116>>, <<68120, 68120>>, <<68150, 68151>>, <<68155, 68158>>,
       <<68169, 68175>>, <<68185, 68191>>, <<68256, 68287>>, <<68327, 68330>>, <<68343, 68351>>, <<68406, 68408>>,
       <<68438, 68439>>, <<68467, 68471>>, <<68498, 68504>>, <<68509, 68520>>, <<68528, 68607>>, <<68681, 68735>>,
       <<68787, 68799>>, <<68851, 68857>>, <<68904, 68911>>, <<68922, 69215>>, <<69247, 69247>>, <<69290, 69290>>,
       <<69294, 69295>>, <<69298, 69375>>, <<69416, 69423>>, <<69466, 69487>>, <<69514, 69551>>, <<69580, 69599>>,
       <<69623, 69631>>, <<69710, 69713>>, <<69750, 69758>>, <<69821, 69821>>, <<69827, 69839>>, <<69865, 69871>>,
       <<69882, 69887>>, <<69941, 69941>>, <<69960, 69967>>, <<70007, 70015>>, <<70112, 70112>>, <<70133, 70143>>,
       <<70162, 70162>>, <<70207, 70271>>, <<70279, 70279>>, <<70281, 70281>>, <<70286, 70286>>, <<70302, 70302>>,
       <<70314, 70319>>, <<70379, 70383>>, <<70394, 70399>>, <<70404, 70404>>, <<70413, 70414>>, <<70417, 70418>>,
       <<70441, 70441>>, <<70449, 70449>>, <<70452, 70452>>, <<70458, 70458>>, <<70469, 70470>>, <<70473, 70474>>,
       <<70478, 70479>>, <<70481, 70486>>, <<70488, 70492>>, <<70500, 70501>>, <<70509, 70511>>, <<70517, 70655>>,
       <<70748, 70748>>, <<70754, 70783>>, <<70856, 70863>>, <<70874, 71039>>, <<71094, 71095>>, <<71134, 71167>>,
       <<71237, 71247>>, <<71258, 71263>>, <<71277, 71295>>, <<71354, 71359>>, <<71370, 71423>>, <<71451, 71452>>,
       <<71468, 71471>>, <<71495, 71679>>, <<71740, 71839>>, <<71923, 71934>>, <<71943, 71944>>, <<71946, 71947>>,
       <<71956, 71956>>, <<71959, 71959>>, <<71990, 71990>>, <<71993, 71994>>, <<72007, 72015>>, <<72026, 72095>>,
       <<72104, 72105>>, <<72152, 72153>>, <<72165, 72191>>, <<72264, 72271>>, <<72355, 72367>>, <<72441, 72703>>,
       <<72713, 72713>>, <<72759, 72759>>, <<72774, 72783>>, <<72813, 72815>>, <<72848, 72849>>, <<72872, 72872>>,
       <<72887, 72959>>, <<72967, 72967>>, <<72970, 72970>>, <<73015, 73017>>, <<73019, 73019>>, <<73022, 73022>>,
       <<73032, 73039>>, <<73050, 73055>>, <<73062, 73062>>, <<73065, 73065>>, <<73103, 73103>>, <<73106, 73106>>,
       <<73113, 73119>>, <<73130, 73439>>, <<73465, 73647>>, <<73649, 73663>>, <<73714, 73726>>, <<74650, 74751>>,
       <<74863, 74863>>, <<74869, 74879>>, <<75076, 77711>>, <<77811, 77823>>, <<78895, 82943>>, <<83527, 92159>>,
       <<92729, 92735>>, <<92767, 92767>>, <<92778, 92781>>, <<92863, 92863>>, <<92874, 92879>>, <<92910, 92911>>,
       <<92918, 92927>>, <<92998, 93007>>, <<93018, 93018>>, <<93026, 93026>>, <<93048, 93052>>, <<93072, 93759>>,
       <<93851, 93951>>, <<94027, 94030>>, <<94088, 94094>>, <<94112, 94175>>, <<94181, 94191>>, <<94194, 94207>>,
       <<100344, 100351>>, <<101590, 101631>>, <<101641, 110575>>, <<110580, 110580>>, <<110588, 110588>>, <<110591, 110591>>,
       <<110883, 110927>>, <<110931, 110947>>, <<110952, 110959>>, <<111356, 113663>>, <<113771, 113775>>, <<113789, 113791>>,
       <<113801, 113807>>, <<113818, 113819>>, <<113824, 118527>>, <<118574, 118575>>, <<118599, 118607>>, <<118724, 118783>>,
       <<119030, 119039>>, <<119079, 119080>>, <<119155, 119162>>, <<119275, 119295>>, <<119366, 119519>>, <<119540, 119551>>,
       <<119639, 119647>>, <<119673, 119807>>, <<119893, 119893>>, <<119965, 119965>>, <<119968, 119969>>, <<119971, 119972>>,
       <<119975, 119976>>, <<119981, 119981>>, <<119994, 119994>>, <<119996, 119996>>, <<120004, 120004>>, <<120070, 120070>>,
       <<120075, 120076>>, <<120085, 120085>>, <<120093, 120093>>, <<120122, 120122>>, <<120127, 120127>>, <<120133, 120133>>,
       <<120135, 120137>>, <<120145, 120145>>, <<120486, 120487>>, <<120780, 120781>>, <<121484, 121498>>, <<121504, 121504>>,
       <<121520, 122623>>, <<122655, 122879>>, <<122887, 122887>>, <<122905, 122906>>, <<122914, 122914>>, <<122917, 122917>>,
       <<122923, 123135>>, <<123181, 123183>>, <<123198, 123199>>, <<123210, 123213>>, <<123216, 123535>>, <<123567, 123583>>,
       <<123642, 123646>>, <<123648, 124895>>, <<124903, 124903>>, <<124908, 124908>>, <<124911, 124911>>, <<124927, 124927>>,
       <<125125, 125126>>, <<125143, 125183>>, <<125260, 125263>>, <<125274, 125277>>, <<125280, 126064>>, <<126133, 126208>>,
       <<126270, 126463>>, <<126468, 126468>>, <<126496, 126496>>, <<126499, 126499>>, <<126501, 126502>>, <<126504, 126504>>,
       <<126515, 126515>>, <<126520, 126520>>, <<126522, 126522>>, <<126524, 126529>>, <<126531, 126534>>, <<126536, 126536>>,
       <<126538, 126538>>, <<126540, 126540>>, <<126544, 126544>>, <<126547, 126547>>, <<126549, 126550>>, <<126552, 126552>>,
       <<126554, 126554>>, <<126556, 126556>>, <<126558, 126558>>, <<126560, 126560>>, <<126563, 126563>>, <<126565, 126566>>,
       <<126571, 126571>>, <<126579, 126579>>, <<126584, 126584>>, <<126589, 126589>>, <<126591, 126591>>, <<126602, 126602>>,
       <<126620, 126624>>, <<126628, 126628>>, <<126634, 126634>>, <<126652, 126703>>, <<126706, 126975>>, <<127020, 127023>>,
       <<127124, 127135>>, <<127151, 127152>>, <<127168, 127168>>, <<127184, 127184>>, <<127222, 127231>>, <<127406, 127461>>,
       <<127491, 127503>>, <<127548, 127551>>, <<127561, 127567>>, <<127570, 127583>>, <<127590, 127743>>, <<128728, 128732>>,
       <<128749, 128751>>, <<128765, 128767>>, <<128884, 128895>>, <<128985, 128991>>, <<129004, 129007>>, <<129009, 129023>>,
       <<129036, 129039>>, <<129096, 129103>>, <<129114, 129119>>, <<129160, 129167>>, <<129198, 129199>>, <<129202, 129279>>,
       <<129620, 129631>>, <<129646, 129647>>, <<129653, 129655>>, <<129661, 129663>>, <<129671, 129679>>, <<129709, 129711>>,
       <<129723, 129727>>, <<129734, 129743>>, <<129754, 129759>>, <<129768, 129775>>, <<129783, 129791>>, <<129939, 129939>>,
       <<129995, 130031>>, <<130042, 131071>>, <<173792, 173823>>, <<177977, 177983>>, <<178206, 178207>>, <<183970, 183983>>,
       <<191457, 194559>>, <<195102, 196607>>, <<201547, 917759>>, <<918000, 1114111>> >>

InRanges(c, ranges) == \E k \in 1..Len(ranges) : ranges[k][1] <= c /\ c <= ranges[k][2]

IsPrintable(c) ==
    IF c < 128 THEN 32 <= c /\ c < 127 ELSE ~InRanges(c, NonPrintable)

Contains(cs, c) == \E k \in 1..Len(cs) : cs[k] = c

\* repr(str): the escapes inside the quotes q
RECURSIVE Escaped(_, _)
Escaped(cs, q) ==
    IF Len(cs) = 0 THEN <<>>
    ELSE LET c == Head(cs)
             e == CASE c = 92 -> <<92, 92>>
                    [] c = q -> <<92, q>>
                    [] c = 10 -> <<92, 110>>
                    [] c = 13 -> <<92, 114>>
                    [] c = 9 -> <<92, 116>>
                    [] OTHER ->
                        IF IsPrintable(c) THEN <<c>>
                        ELSE IF c < 256 THEN <<92, 120>> \o Hex(c, 2)
                        ELSE IF c < 65536 THEN <<92, 117>> \o Hex(c, 4)
                        ELSE <<92, 85>> \o Hex(c, 8)
         IN  e \o Escaped(Tail(cs), q)

\* repr(str): double quotes exactly when the text holds ' and no "
ReprStr(cs) ==
    LET q == IF Contains(cs, 39) /\ ~Contains(cs, 34) THEN 34 ELSE 39
    IN  <<q>> \o Escaped(cs, q) \o <<q>>

RECURSIVE Repr(_)
RECURSIVE ReprElems(_)
ReprElems(xs) ==
    IF Len(xs) = 0 THEN <<>>
    ELSE IF Len(xs) = 1 THEN Repr(xs[1])
    ELSE Repr(xs[1]) \o <<44, 32>> \o ReprElems(Tail(xs))

Repr(v) ==
    CASE v.kind = "none" -> <<78, 111, 110, 101>>
      [] v.kind = "str" -> ReprStr(v.chars)
      [] v.kind = "int" -> Digits(v.n)
      [] v.kind = "tuple" ->
            <<40>> \o Repr(v.fst) \o <<44, 32>> \o Repr(v.snd) \o <<41>>
      [] v.kind = "list" -> <<91>> \o ReprElems(v.elems) \o <<93>>

PyStr(v) == IF v.kind = "str" THEN v.chars ELSE Repr(v)

RECURSIVE JoinElems(_)
JoinElems(xs) ==
    IF Len(xs) = 0 THEN <<>> ELSE PyStr(xs[1]) \o JoinElems(Tail(xs))

\* lambda x: "".join(map(str, x)); None and int are not iterable
JoinStr(x) ==
    CASE x.kind = "tuple" -> Str(PyStr(x.fst) \o PyStr(x.snd))
      [] x.kind = "list" -> Str(JoinElems(x.elems))
      [] x.kind = "str" -> Str(x.chars)
      [] OTHER -> TypeError

\* str.startswith(prefix, start): a negative start counts from the end
startswith(s, prefix, start) ==
    LET st == IF start >= 0 THEN start
              ELSE IF start + Len(s) >= 0 THEN start + Len(s) ELSE 0
    IN  /\ st + Len(prefix) <= Len(s)
        /\ \A k \in 1..Len(prefix) : s[st + k] = prefix[k]

\* ------------------------------------------------------- regex patterns
\* a pattern is one character class under one quantifier
Pattern(cls, quant) == [cls |-> cls, quant |-> quant]
PatDigits == Pattern("digit", "+")
Patterns == {PatDigits, Pattern("digit", "1"), Pattern("a", "+"), Pattern("a", "*")}

\* the ranges of the code points \d matches
DigitRanges ==
    << <<48, 57>>, <<1632, 1641>>, <<1776, 1785>>, <<1984, 1993>>, <<2406, 2415>>, <<2534, 2543>>,
       <<2662, 2671>>, <<2790, 2799>>, <<2918, 2927>>, <<3046, 3055>>, <<3174, 3183>>, <<3302, 3311>>,
       <<3430, 3439>>, <<3558, 3567>>, <<3664, 3673>>, <<3792, 3801>>, <<3872, 3881>>, <<4160, 4169>>,
       <<4240, 4249>>, <<6112, 6121>>, <<6160, 6169>>, <<6470, 6479>>, <<6608, 6617>>, <<6784, 6793>>,
       <<6800, 6809>>, <<6992, 7001>>, <<7088, 7097>>, <<7232, 7241>>, <<7248, 7257>>, <<42528, 42537>>,
       <<43216, 43225>>, <<43264, 43273>>, <<43472, 43481>>, <<43504, 43513>>, <<43600, 43609>>, <<44016, 44025>>,
       <<65296, 65305>>, <<66720, 66729>>, <<68912, 68921>>, <<69734, 69743>>, <<69872, 69881>>, <<69942, 69951>>,
       <<70096, 70105>>, <<70384, 70393>>, <<70736, 70745>>, <<70864, 70873>>, <<71248, 71257>>, <<71360, 71369>>,
       <<71472, 71481>>, <<71904, 71913>>, <<72016, 72025>>, <<72784, 72793>>, <<73040, 73049>>, <<73120, 73129>>,
       <<92768, 92777>>, <<92864, 92873>>, <<93008, 93017>>, <<120782, 120831>>, <<123200, 123209>>, <<123632, 123641>>,
       <<125264, 125273>>, <<130032, 130041>> >>

InClass(c, cls) ==
    IF cls = "digit" THEN InRanges(c, DigitRanges) ELSE c = 97

\* length of the longest run of characters of the class from offset i
RECURSIVE RunLen(_, _, _)
RunLen(s, i, cls) ==
    IF i < Len(s) /\ InClass(s[i + 1], cls) THEN 1 + RunLen(s, i + 1, cls) ELSE 0

\* compiled_re.match(s, idx): length of the greedy match, -1 when none
MatchLen(pat, s, i) ==
    LET n == RunLen(s, i, pat.cls)
    IN  CASE pat.quant = "1" -> IF n >= 1 THEN 1 ELSE -1
          [] pat.quant = "+" -> IF n >= 1 THEN n ELSE -1
          [] pat.quant = "*" -> n

\* ------------------------------------------------------- parser values
parse_letter_a == [op |-> "parse_a"]
parse_true_p == [op |-> "parse_true"]
parse_false_p == [op |-> "parse_false"]
regex(regex_str) == [op |-> "regex", regex_str |-> regex_str]
pure(x) == [op |-> "pure", x |-> x]
seq(parser1, parser2) == [op |-> "seq", parser1 |-> parser1, parser2 |-> parser2]
choice(parser1, parser2) == [op |-> "choice", parser1 |-> parser1, parser2 |-> parser2]
compose(parser1, parser2) == [op |-> "compose", parser1 |-> parser1, parser2 |-> parser2]
between(parser1, parser2, parser3) ==
    [op |-> "between", parser1 |-> parser1, parser2 |-> parser2, parser3 |-> parser3]
fmap(f, p) == [op |-> "fmap", f |-> f, parser |-> p]
bind(p, f) == [op |-> "bind", parser |-> p, f |-> f]
many(p) == [op |-> "many", parser |-> p]

\* lambda x: pure(x + "b"); x + "b" raises unless x is a str
AppendB(x) == IF x.kind = "str" THEN pure(Str(x.chars \o LitB)) ELSE TypeError

\* the functions handed to fmap and bind are named by a tag
ApplyMap(f, x) == CASE f = "join_str" -> JoinStr(x)
ApplyBind(f, x) == CASE f = "append_b" -> AppendB(x)

\* ------------------------------------------------------ atomic parsers
\* text[pos] with a negative pos counts from the end, or raises IndexError
parse_a(s, i) ==
    IF i >= Len(s) THEN <<None, i>>
    ELSE IF i < 0 - Len(s) THEN <<IndexError, -1>>
    ELSE IF s[(IF i < 0 THEN i + Len(s) ELSE i) + 1] = 97 THEN <<Str(LitA), i + 1>>
    ELSE <<None, i>>

parse_true(s, i) ==
    IF startswith(s, LitTrue, i) THEN <<Str(LitTrue), i + 4>> ELSE <<None, i>>

parse_false(s, i) ==
    IF startswith(s, LitFalse, i) THEN <<Str(LitFalse), i + 5>> ELSE <<None, i>>

\* compiled_re.match(s, idx) starts at idx clipped to 0..len(s)
regex_inner(regex_str, s, i) ==
    LET st == IF i < 0 THEN 0 ELSE IF i > Len(s) THEN Len(s) ELSE i
        m == MatchLen(regex_str, s, st)
    IN  IF m >= 0 THEN <<Str(SubSeq(s, st + 1, st + m)), st + m>> ELSE <<None, i>>

pure_inner(x, s, i) == <<x, i>>

\* --------------------------------------------------------- combinators
RECURSIVE Call(_, _, _)

\* seq that fails at the offset parser1 left
parse_seq_leak(parser1, parser2, s, i) ==
    LET r1 == Call(parser1, s, i)
        r2 == Call(parser2, s, r1[2])
    IN  IF NoReturn(r1) THEN r1
        ELSE IF NoReturn(r2) THEN r2
        ELSE IF r1[1] = None \/ r2[1] = None THEN <<None, r1[2]>>
        ELSE <<Tuple(r1[1], r2[1]), r2[2]>>

\* parser2 is invoked before x is tested, also when parser1 failed
parse_seq(parser1, parser2, s, i) ==
    LET r1 == Call(parser1, s, i)
        x == r1[1]
        idx2 == r1[2]
        r2 == Call(parser2, s, idx2)
        y == r2[1]
        idx3 == r2[2]
    IN  IF NoReturn(r1) THEN r1
        ELSE IF NoReturn(r2) THEN r2
        ELSE IF x = None \/ y = None THEN <<None, i>>
        ELSE <<Tuple(x, y), idx3>>

\* choice that tries parser2 first
parse_choice_swapped(parser1, parser2, s, i) ==
    LET x == Call(parser2, s, i)
    IN  IF NoReturn(x) THEN x
        ELSE IF x[1] # None THEN x ELSE Call(parser1, s, i)

parse_choice(parser1, parser2, s, i) ==
    LET x == Call(parser1, s, i)
    IN  IF NoReturn(x) THEN x
        ELSE IF x[1] # None THEN x ELSE Call(parser2, s, i)

\* compose that runs parser2 at the start offset
parse_compose_restart(parser1, parser2, s, i) ==
    LET r1 == Call(parser1, s, i)
    IN  IF NoReturn(r1) THEN r1
        ELSE IF r1[1] = None THEN <<None, i>> ELSE Call(parser2, s, i)

parse_compose(parser1, parser2, s, i) ==
    LET r1 == Call(parser1, s, i)
        x == r1[1]
        idx2 == r1[2]
    IN  IF NoReturn(r1) THEN r1
        ELSE IF x = None THEN <<None, i>> ELSE Call(parser2, s, idx2)

\* between that returns the offset after parser3
parse_between_closer(parser1, parser2, parser3, s, i) ==
    LET r1 == Call(parser1, s, i)
    IN  IF NoReturn(r1) THEN r1
        ELSE IF r1[1] = None THEN <<None, i>>
        ELSE LET r2 == Call(parser2, s, r1[2])
             IN  IF NoReturn(r2) THEN r2
                 ELSE IF r2[1] = None THEN <<None, i>>
                 ELSE LET r3 == Call(parser3, s, r2[2])
                      IN  IF NoReturn(r3) THEN r3
                          ELSE IF r3[1] = None THEN <<None, i>>
                          ELSE <<r2[1], r3[2]>>

parse_between(parser1, parser2, parser3, s, i) ==
    LET r1 == Call(parser1, s, i)
        x == r1[1]
        idx2 == r1[2]
    IN  IF NoReturn(r1) THEN r1
        ELSE IF x = None THEN <<None, i>>
        ELSE LET r2 == Call(parser2, s, idx2)
                 y == r2[1]
                 idx3 == r2[2]
             IN  IF NoReturn(r2) THEN r2
                 ELSE IF y = None THEN <<None, i>>
                 ELSE LET r3 == Call(parser3, s, idx3)
                          z == r3[1]
                      IN  IF NoReturn(r3) THEN r3
                          ELSE IF z = None THEN <<None, i>>
                          ELSE <<y, idx3>>

\* f receives x, the whole pair the parser returned
parse_fmap(f, p, s, i) ==
    LET x == Call(p, s, i)
    IN  IF NoReturn(x) THEN x
        ELSE IF x[1] = None THEN <<None, i>>
        ELSE LET v == ApplyMap(f, Tuple(x[1], PyInt(x[2])))
             IN  IF v = TypeError THEN Raised ELSE <<v, x[2]>>

\* bind that runs f(x) at the start offset
bind_inner_restart(p, f, s, i) ==
    LET r1 == Call(p, s, i)
    IN  IF NoReturn(r1) THEN r1
        ELSE IF r1[1] = None THEN <<None, i>>
        ELSE LET q == ApplyBind(f, r1[1])
             IN  IF q = TypeError THEN Raised ELSE Call(q, s, i)

bind_inner(p, f, s, i) ==
    LET r1 == Call(p, s, i)
        x == r1[1]
        idx2 == r1[2]
    IN  IF NoReturn(r1) THEN r1
        ELSE IF x = None THEN <<None, i>>
        ELSE LET q == ApplyBind(f, x)
             IN  IF q = TypeError THEN Raised ELSE Call(q, s, idx2)

\* loop body that forgets result.append(x)
many_body_noappend(p, s, i, acc) ==
    LET r == Call(p, s, i)
    IN  IF NoReturn(r) THEN [exit |-> "noreturn", out |-> r, result |-> acc, idx |-> i]
        ELSE IF r[1] = None THEN [exit |-> "break", out |-> r, result |-> acc, idx |-> i]
        ELSE [exit |-> "next", out |-> r, result |-> acc, idx |-> r[2]]

\* loop body that forgets idx = idx2
many_body_stuck(p, s, i, acc) ==
    LET r == Call(p, s, i)
    IN  IF NoReturn(r) THEN [exit |-> "noreturn", out |-> r, result |-> acc, idx |-> i]
        ELSE IF r[1] = None THEN [exit |-> "break", out |-> r, result |-> acc, idx |-> i]
        ELSE [exit |-> "next", out |-> r, result |-> Append(acc, r[1]), idx |-> i]

\* one pass of the body of "while True" in many's inner function
many_body(p, s, i, acc) ==
    LET r == Call(p, s, i)
        x == r[1]
        idx2 == r[2]
    IN  IF NoReturn(r) THEN [exit |-> "noreturn", out |-> r, result |-> acc, idx |-> i]
        ELSE IF x = None THEN [exit |-> "break", out |-> r, result |-> acc, idx |-> i]
        ELSE [exit |-> "next", out |-> r, result |-> Append(acc, x), idx |-> idx2]

\* many's inner function run to its end.  The parsers are functions of
\* (s, idx), so the loop runs forever exactly when it comes back to an
\* offset it has already tried.
RECURSIVE many_loop(_, _, _, _, _)
many_loop(p, s, i, acc, seen) ==
    LET b == many_body(p, s, i, acc)
    IN  CASE b.exit = "noreturn" -> b.out
          [] b.exit = "break" -> <<List(b.result), b.idx>>
          [] b.exit = "next" ->
                IF b.idx \in seen \cup {i} THEN Hung
                ELSE many_loop(p, s, b.idx, b.result, seen \cup {i})

many_inner(p, s, i) == many_loop(p, s, i, <<>>, {})

\* Parser.__call__: delegate to the wrapped function
Call(p, s, i) ==
    CASE p.op = "parse_a" -> parse_a(s, i)
      [] p.op = "parse_true" -> parse_true(s, i)
      [] p.op = "parse_false" -> parse_false(s, i)
      [] p.op = "regex" -> regex_inner(p.regex_str, s, i)
      [] p.op = "pure" -> pure_inner(p.x, s, i)
      [] p.op = "seq" -> parse_seq(p.parser1, p.parser2, s, i)
      [] p.op = "choice" -> parse_choice(p.parser1, p.parser2, s, i)
      [] p.op = "compose" -> parse_compose(p.parser1, p.parser2, s, i)
      [] p.op = "between" -> parse_between(p.parser1, p.parser2, p.parser3, s, i)
      [] p.op = "fmap" -> parse_fmap(p.f, p.parser, s, i)
      [] p.op = "bind" -> bind_inner(p.parser, p.f, s, i)
      [] p.op = "many" -> many_inner(p.parser, s, i)

\* ------------------------------------------------- the parsers of the file
parse_combined == seq(parse_letter_a, parse_true_p)
parse_or == choice(parse_letter_a, parse_true_p)
parse_skip == compose(parse_letter_a, parse_true_p)
parse_between_p == between(parse_letter_a, parse_true_p, parse_false_p)
parse_fmap_p == fmap("join_str", parse_letter_a)
parse_regex == regex(PatDigits)
parse_pure == pure(Str(LitA))
parse_bind == bind(parse_letter_a, "append_b")
parse_many == many(parse_letter_a)

\* the file's f of bind over a parser whose value is a tuple: x + "b" raises
parse_bind_tuple == bind(parse_combined, "append_b")

PureValues == {Str(LitA), None}

Atoms ==
    {parse_letter_a, parse_true_p, parse_false_p, parse_regex}
        \cup {pure(x) : x \in PureValues}

Subs == Atoms \cup {parse_combined, parse_or, parse_skip, parse_between_p,
                    parse_fmap_p, parse_bind, parse_many, parse_bind_tuple}

RegexParsers == {regex(pat) : pat \in Patterns}

\* --------------------------------------------------------------- inputs
Words == {LitA, LitTrue, LitFalse, <<49>>}

RECURSIVE TextsOf(_)
TextsOf(n) ==
    IF n = 0 THEN {<<>>}
    ELSE LET shorter == TextsOf(n - 1)
         IN  shorter \cup {t \o w : t \in shorter, w \in Words}

Texts == TextsOf(MaxWords)

NoRet == <<None, -1>>
NoParser == [op |-> "none"]

\* where control is once the call has produced the outcome r
Outcome(r) ==
    CASE r[1].kind = "raise" -> "raised"
      [] r[1].kind = "hang" -> "hung"
      [] OTHER -> "done"

\* ------------------------------------------------------- state machine
Init ==
    /\ text \in Texts
    /\ pos \in 0..Len(text)
    /\ pc = "ready"
    /\ parser = NoParser
    /\ ret = NoRet
    /\ result = <<>>
    /\ idx = pos
    /\ calls = 0

\* each action is one invocation parser(text, pos) of a freshly built parser
InvokeRegex ==
    /\ pc = "ready"
    /\ \E pat \in Patterns :
        /\ parser' = regex(pat)
        /\ ret' = Call(regex(pat), text, pos)
    /\ pc' = Outcome(ret')
    /\ UNCHANGED <<text, pos, result, idx, calls>>

InvokePure ==
    /\ pc = "ready"
    /\ \E x \in PureValues :
        /\ parser' = pure(x)
        /\ ret' = Call(pure(x), text, pos)
    /\ pc' = Outcome(ret')
    /\ UNCHANGED <<text, pos, result, idx, calls>>

InvokeSeq ==
    /\ pc = "ready"
    /\ \E p1 \in Subs, p2 \in Subs :
        /\ parser' = seq(p1, p2)
        /\ ret' = Call(seq(p1, p2), text, pos)
    /\ pc' = Outcome(ret')
    /\ UNCHANGED <<text, pos, result, idx, calls>>

InvokeChoice ==
    /\ pc = "ready"
    /\ \E p1 \in Subs, p2 \in Subs :
        /\ parser' = choice(p1, p2)
        /\ ret' = Call(choice(p1, p2), text, pos)
    /\ pc' = Outcome(ret')
    /\ UNCHANGED <<text, pos, result, idx, calls>>

InvokeCompose ==
    /\ pc = "ready"
    /\ \E p1 \in Subs, p2 \in Subs :
        /\ parser' = compose(p1, p2)
        /\ ret' = Call(compose(p1, p2), text, pos)
    /\ pc' = Outcome(ret')
    /\ UNCHANGED <<text, pos, result, idx, calls>>

InvokeBetween ==
    /\ pc = "ready"
    /\ \E p1 \in Atoms, p2 \in Atoms, p3 \in Atoms :
        /\ parser' = between(p1, p2, p3)
        /\ ret' = Call(between(p1, p2, p3), text, pos)
    /\ pc' = Outcome(ret')
    /\ UNCHANGED <<text, pos, result, idx, calls>>

InvokeFmap ==
    /\ pc = "ready"
    /\ \E p \in Subs :
        /\ parser' = fmap("join_str", p)
        /\ ret' = Call(fmap("join_str", p), text, pos)
    /\ pc' = Outcome(ret')
    /\ UNCHANGED <<text, pos, result, idx, calls>>

InvokeBind ==
    /\ pc = "ready"
    /\ \E p \in Subs :
        /\ parser' = bind(p, "append_b")
        /\ ret' = Call(bind(p, "append_b"), text, pos)
    /\ pc' = Outcome(ret')
    /\ UNCHANGED <<text, pos, result, idx, calls>>

\* entry of many's inner function: result = []
ManyEnter ==
    /\ pc = "ready"
    /\ \E p \in Subs \cup RegexParsers : parser' = many(p)
    /\ result' = <<>>
    /\ idx' = pos
    /\ calls' = 0
    /\ pc' = "loop"
    /\ UNCHANGED <<text, pos, ret>>

\* one iteration of "while True", and the return when it breaks
ManyLoop ==
    /\ pc = "loop"
    /\ calls < MaxIter
    /\ LET b == many_body(parser.parser, text, idx, result)
       IN  /\ result' = b.result
           /\ idx' = b.idx
           /\ calls' = calls + 1
           /\ CASE b.exit = "noreturn" -> pc' = Outcome(b.out) /\ ret' = b.out
                [] b.exit = "break" -> pc' = "done" /\ ret' = <<List(b.result), b.idx>>
                [] b.exit = "next" -> pc' = "loop" /\ ret' = ret
    /\ UNCHANGED <<text, pos, parser>>

Next ==
    \/ InvokeRegex
    \/ InvokePure
    \/ InvokeSeq
    \/ InvokeChoice
    \/ InvokeCompose
    \/ InvokeBetween
    \/ InvokeFmap
    \/ InvokeBind
    \/ ManyEnter
    \/ ManyLoop

Spec == Init /\ [][Next]_vars

TypeOK ==
    /\ pc \in {"ready", "loop", "done", "raised", "hung"}
    /\ pos \in 0..Len(text)
    /\ ret[2] \in Int
    /\ pc = "done" => ~NoReturn(ret)

\* ---------------------------------------------------------- properties
Returned(op) == pc = "done" /\ parser.op = op

Failed(r) == r[1] = None

\* a parser that reports its start offset whenever it fails on the text
FailureContract(p) ==
    \A j \in 0..Len(text) : Failed(Call(p, text, j)) => Call(p, text, j)[2] = j

SubParsers(p) ==
    CASE p.op \in {"seq", "choice", "compose"} -> {p.parser1, p.parser2}
      [] p.op = "between" -> {p.parser1, p.parser2, p.parser3}
      [] p.op = "fmap" -> {p.parser}
      [] p.op = "bind" ->
            {p.parser} \cup
            {ApplyBind(p.f, Call(p.parser, text, j)[1]) :
                j \in {k \in 0..Len(text) : Call(p.parser, text, k)[1].kind = "str"}}

\* C1: a parser built with seq, choice, compose, between, fmap or bind from
\* sub-parsers that report their start offset on failure returns its own
\* start offset whenever it fails.
BacktrackingInvariant ==
    (/\ pc = "done"
     /\ parser.op \in {"seq", "choice", "compose", "between", "fmap", "bind"}
     /\ \A p \in SubParsers(parser) : FailureContract(p)
     /\ Failed(ret))
    => ret[2] = pos

\* C2: seq returns the pair of both values at parser2's end offset when both
\* parsers succeed in turn, and fails at the start offset otherwise.
SeqContract ==
    Returned("seq") =>
        LET r1 == Call(parser.parser1, text, pos)
            r2 == Call(parser.parser2, text, r1[2])
        IN  IF ~Failed(r1) /\ ~Failed(r2)
            THEN ret = <<Tuple(r1[1], r2[1]), r2[2]>>
            ELSE ret = <<None, pos>>

SeqBacktracked ==
    /\ Returned("seq")
    /\ LET r1 == Call(parser.parser1, text, pos)
       IN  /\ ~Failed(r1)
           /\ r1[2] > pos
           /\ Failed(Call(parser.parser2, text, r1[2]))
    /\ ret = <<None, pos>>

\* C3: choice returns parser1's result whenever parser1 succeeds, whatever
\* parser2 would do, and otherwise the result of parser2 at the start offset.
ChoicePriority ==
    Returned("choice") =>
        LET r1 == Call(parser.parser1, text, pos)
            r2 == Call(parser.parser2, text, pos)
        IN  IF ~Failed(r1) THEN ret = r1 ELSE ret = r2

ChoiceBothMatch ==
    /\ Returned("choice")
    /\ LET r1 == Call(parser.parser1, text, pos)
           r2 == Call(parser.parser2, text, pos)
       IN  ~Failed(r1) /\ ~Failed(r2) /\ r1 # r2 /\ ret = r1

\* C4: between returns parser2's value at the offset after parser2 when the
\* three parsers succeed in turn, and fails at the start offset otherwise.
BetweenContract ==
    Returned("between") =>
        LET r1 == Call(parser.parser1, text, pos)
            r2 == Call(parser.parser2, text, r1[2])
            r3 == Call(parser.parser3, text, r2[2])
        IN  IF ~Failed(r1) /\ ~Failed(r2) /\ ~Failed(r3)
            THEN ret = <<r2[1], r2[2]>>
            ELSE ret = <<None, pos>>

BetweenCloserConsumed ==
    /\ Returned("between")
    /\ LET r1 == Call(parser.parser1, text, pos)
           r2 == Call(parser.parser2, text, r1[2])
           r3 == Call(parser.parser3, text, r2[2])
       IN  /\ ~Failed(r1) /\ ~Failed(r2) /\ ~Failed(r3)
           /\ pos < r1[2] /\ r1[2] < r2[2] /\ r2[2] < r3[2]
           /\ ret = <<r2[1], r2[2]>>

\* C5: compose fails at the start offset when parser1 fails, and otherwise
\* returns exactly what parser2 returns at parser1's end offset.
ComposeContract ==
    Returned("compose") =>
        LET r1 == Call(parser.parser1, text, pos)
        IN  IF Failed(r1) THEN ret = <<None, pos>>
            ELSE ret = Call(parser.parser2, text, r1[2])

ComposeSkipped ==
    /\ Returned("compose")
    /\ LET r1 == Call(parser.parser1, text, pos)
       IN  /\ ~Failed(r1)
           /\ r1[2] > pos
           /\ ~Failed(ret)
           /\ ret[2] > r1[2]
           /\ ret[1] # r1[1]

\* C6: fmap returns f applied to the parsed value alone, at the parser's end
\* offset, and fails at the start offset when the parser fails.
FmapOnValue ==
    Returned("fmap") =>
        LET r == Call(parser.parser, text, pos)
        IN  IF Failed(r) THEN ret = <<None, pos>>
            ELSE ret = <<ApplyMap(parser.f, r[1]), r[2]>>

\* C7: bind fails at the start offset when the parser fails, and otherwise
\* returns what the parser f(v) returns at the parser's end offset; with
\* f = lambda x: pure(x + "b") that is v + "b" at that offset.
BindContract ==
    Returned("bind") =>
        LET r == Call(parser.parser, text, pos)
        IN  IF Failed(r) THEN ret = <<None, pos>>
            ELSE /\ ret = Call(ApplyBind(parser.f, r[1]), text, r[2])
                 /\ parser.f = "append_b" => ret = <<Str(r[1].chars \o LitB), r[2]>>

BindChained ==
    /\ Returned("bind")
    /\ LET r == Call(parser.parser, text, pos)
       IN  ~Failed(r) /\ r[2] > pos /\ ret = <<Str(r[1].chars \o LitB), r[2]>>

\* the offset many's parser is invoked at on its (n+1)-th invocation
RECURSIVE OffsetAfter(_, _)
OffsetAfter(p, n) ==
    IF n = 0 THEN pos ELSE Call(p, text, OffsetAfter(p, n - 1))[2]

\* C8: many returns a success: the list of the values of the consecutive
\* successful invocations of its parser, at the offset where it first failed.
ManyContract ==
    Returned("many") =>
        LET p == parser.parser
            n == Len(ret[1].elems)
        IN  /\ ~Failed(ret)
            /\ ret[1].kind = "list"
            /\ \A k \in 1..n :
                  Call(p, text, OffsetAfter(p, k - 1)) = <<ret[1].elems[k], OffsetAfter(p, k)>>
            /\ \A k \in 1..n : ret[1].elems[k] # None
            /\ Failed(Call(p, text, OffsetAfter(p, n)))
            /\ ret[2] = OffsetAfter(p, n)
            /\ Failed(Call(p, text, pos)) => ret = <<List(<<>>), pos>>

ManyCollected ==
    /\ Returned("many")
    /\ Len(ret[1].elems) >= 2
    /\ ret[2] > pos

ManyEmpty ==
    /\ Returned("many")
    /\ ret = <<List(<<>>), pos>>

\* every success of p on the text moves the offset forward, within the text
Progresses(p) ==
    \A j \in 0..Len(text) :
        LET r == Call(p, text, j)
        IN  ~Failed(r) => j < r[2] /\ r[2] <= Len(text)

\* C9: when every success of its parser advances within the text, the loop
\* of many makes at most len(text) - pos successful invocations and one
\* failing invocation, and then has returned.
ManyBounded ==
    (parser.op = "many" /\ Progresses(parser.parser)) =>
        /\ Len(result) <= Len(text) - pos
        /\ calls <= Len(text) - pos + 1
        /\ calls = Len(text) - pos + 1 => pc # "loop"
        /\ pc = "loop" => calls = Len(result) /\ calls < MaxIter
        /\ pc = "done" => calls = Len(result) + 1

ManyTightBound ==
    /\ Returned("many")
    /\ Progresses(parser.parser)
    /\ Len(text) - pos >= 2
    /\ calls = Len(text) - pos + 1

\* C10: pure(x) returns success with value x at the start offset, for every
\* value x, text and offset.
PureAlwaysSucceeds ==
    Returned("pure") => ret = <<parser.x, pos>> /\ ~Failed(ret)

\* the stepwise loop of many and many_inner return the same pair
ManyLoopAgrees ==
    Returned("many") => ret = Call(parser, text, pos)

\* seq has invoked parser2 although parser1 had failed
SeqRaisedAfterFailure ==
    /\ pc = "raised"
    /\ parser.op = "seq"
    /\ Failed(Call(parser.parser1, text, pos))
====
